---- MODULE Spec2Model ----
(***************************************************************************)
(* A model of src/util.rs of rs-tiled: the attribute extractor (get_attrs),*)
(* the tag cursor (parse_tag), the data dispatcher (parse_data,            *)
(* parse_infinite_data, parse_data_line), the decoders (parse_base64,      *)
(* decode_csv) and the tile grid assembler (convert_to_tile).              *)
(*                                                                         *)
(* Three machines share the module, each with its own specification:       *)
(*   SpecAttrs  one get_attrs! expansion, run iteration by iteration;      *)
(*   SpecGrid   decode_csv's Characters arm and convert_to_tile run on the *)
(*              CSV text and on the little-endian bytes of the same tiles; *)
(*   Spec       the pull parsers over an event source (xml-rs).            *)
(* Option<T> is a sequence: <<>> is None and <<v>> is Some(v).             *)
(***************************************************************************)
EXTENDS Integers, Sequences, FiniteSets, TLC

VARIABLES
    \* ---- get_attrs! (SpecAttrs)
    attrs,        \* $attrs: the attribute list, [name, value] records
    optionals,    \* the optionals: [...] specs, [name, method] records
    required,     \* the required: [...] specs
    ai,           \* position of `for attr in $attrs.iter()`
    slots,        \* [oVar, var]: the $oVar and $var locals, one Option each
    seen,         \* the attributes the loop has visited so far (history)
    attrsOut,     \* what the macro evaluates to
    \* ---- decode_csv / convert_to_tile side by side (SpecGrid)
    vals,         \* the tile values both encodings represent
    all,          \* convert_to_tile's `all`
    gwidth,       \* the width both decoders get
    gpc,          \* position of the CSV side
    csvOut,       \* decode_csv's return value
    convOut,      \* convert_to_tile's return value
    \* ---- decode_csv's Characters arm (SpecGrid and Spec)
    tiles_it,     \* tiles_it: the tokens the iterator has not yielded yet
    rows,         \* rows
    \* ---- the pull parsers (Spec)
    fn,           \* the entry point under execution
    pc,           \* the loop the control is in
    encoding,     \* parse_data_line's encoding
    compression,  \* parse_data_line's compression
    width,        \* the width handed to parse_data_line
    zstd,         \* cfg(feature = "zstd")
    ctx,          \* who called parse_data_line (parse_data or Chunk::new), and
                  \* the depth of the tag whose content it decodes (history)
    cur,          \* the chunk under construction in Chunk::new
    open,         \* the event source's stack of open elements
    rootClosed,   \* the end-tag of the tag the entry point is in was delivered
    ended,        \* the event source has delivered EndDocument
    nEvents,      \* how many events parser.next() has delivered
    last,         \* the last event delivered, and the loop that pulled it
    children,     \* the chunk child tags of the data tag seen so far (history)
    calls,        \* the decoding stages run so far (history)
    chunks,       \* parse_infinite_data's chunks
    animation,    \* parse_animation's animation
    result        \* the entry point's return value

attrVars == <<attrs, optionals, required, ai, slots, seen, attrsOut>>
gridVars == <<vals, all, gwidth, gpc, csvOut, convOut>>
csvVars == <<tiles_it, rows>>
parseVars == <<fn, pc, encoding, compression, width, zstd, ctx, cur, open, rootClosed,
               ended, nEvents, last, children, calls, chunks, animation, result>>
vars == <<attrVars, gridVars, csvVars, parseVars>>

(***************************************************************************)
(* Bounds of the model.                                                    *)
(***************************************************************************)
MaxAttrs == 3
MaxTiles == 3
MaxWidth == 2
MaxRows == 4
MaxEvents == 6
MaxDepth == 2

\* All the sequences over S of length at most n.
RECURSIVE SeqsUpTo(_, _)
SeqsUpTo(S, n) ==
    IF n = 0 THEN {<<>>}
    ELSE LET shorter == SeqsUpTo(S, n - 1)
         IN  shorter \cup {Append(q, x) : q \in {r \in shorter : Len(r) = n - 1}, x \in S}

Min(a, b) == IF a < b THEN a ELSE b

Take(q, n) == SubSeq(q, 1, Min(n, Len(q)))
Drop(q, n) == SubSeq(q, Min(n, Len(q)) + 1, Len(q))

(***************************************************************************)
(* Strings.  A Rust String is a TLA+ string where the code only compares   *)
(* it, and a sequence of one-character strings where the code scans it.    *)
(***************************************************************************)
Digits == <<"0", "1", "2", "3", "4", "5", "6", "7", "8", "9">>

IsDigit(c) == \E d \in 1..10 : Digits[d] = c
DigitVal(c) == (CHOOSE d \in 1..10 : Digits[d] = c) - 1

\* The characters of the attribute values the model uses.
CharsOf(v) ==
    CASE v = "0" -> <<"0">>
      [] v = "1" -> <<"1">>
      [] v = "2" -> <<"2">>
      [] v = "16" -> <<"1", "6">>
      [] v = "-16" -> <<"-", "1", "6">>
      [] v = "csv" -> <<"c", "s", "v">>
      [] OTHER -> <<"?">>

\* str::parse::<u32>() / ::<i32>(): an optional sign ('+', and '-' when
\* signed), then one digit at least and digits only.  The decimal strings of
\* the model are short: no value overflows.
RECURSIVE DigitsValue(_, _)
DigitsValue(cs, acc) ==
    IF cs = <<>> THEN acc
    ELSE DigitsValue(Tail(cs), acc * 10 + DigitVal(Head(cs)))

ParseInt(cs, signed) ==
    LET neg == cs # <<>> /\ Head(cs) = "-"
        body == IF cs # <<>> /\ (Head(cs) = "+" \/ (signed /\ neg)) THEN Tail(cs) ELSE cs
    IN  IF body = <<>> \/ \E i \in 1..Len(body) : ~IsDigit(body[i])
        THEN <<>>
        ELSE <<(IF signed /\ neg THEN -1 ELSE 1) * DigitsValue(body, 0)>>

(***************************************************************************)
(* get_attrs!                                                              *)
(***************************************************************************)
\* $method(attr.value.clone()): the conversions the callers pass.
ApplyMethod(method, value) ==
    CASE method = "some" -> <<value>>
      [] method = "parse_i32" -> ParseInt(CharsOf(value), TRUE)
      [] method = "parse_u32" -> ParseInt(CharsOf(value), FALSE)

\* The first arm of the match whose pattern is the name, 0 when there is none.
ArmIndex(name, specs) ==
    IF \E i \in 1..Len(specs) : specs[i].name = name
    THEN CHOOSE i \in 1..Len(specs) :
             /\ specs[i].name = name
             /\ \A j \in 1..(i - 1) : specs[j].name # name
    ELSE 0

\* A slot assignment that keeps a value already there (mutant of Assign).
AssignKeepFirst(old, new) == IF old = <<>> THEN new ELSE old

\* `$var = $method(...)`: the slot takes the conversion's result.
Assign(old, new) == new

\* One iteration of the loop: the match on attr.name.local_name.  The
\* optional arms come first in the expansion, then the required ones; only
\* the first arm that matches runs.
MatchArm(attr, opts, reqs, s) ==
    LET oi == ArmIndex(attr.name, opts)
        ri == ArmIndex(attr.name, reqs)
    IN  IF oi # 0
        THEN [s EXCEPT !.oVar[oi] = Assign(@, ApplyMethod(opts[oi].method, attr.value))]
        ELSE IF ri # 0
        THEN [s EXCEPT !.var[ri] = Assign(@, ApplyMethod(reqs[ri].method, attr.value))]
        ELSE s

\* `$(let mut $oVar = None;)* $(let mut $var = None;)*`
EmptySlots(opts, reqs) ==
    [oVar |-> [i \in 1..Len(opts) |-> <<>>], var |-> [i \in 1..Len(reqs) |-> <<>>]]

\* A check that looks at the first required slot only (mutant of RequiredPresent).
RequiredPresentFirstOnly(var) == Len(var) = 0 \/ var[1] # <<>>

\* `true $(&& $var.is_some())*`
RequiredPresent(var) == \A i \in 1..Len(var) : var[i] # <<>>

\* The end of the expansion: the early return, else the two tuples.
\* Option::unwrap panics on None.
AttrsReturn(s) ==
    IF ~RequiredPresent(s.var)
    THEN [kind |-> "Err", err |-> "MalformedAttributes", oVar |-> <<>>, var |-> <<>>]
    ELSE IF \E i \in 1..Len(s.var) : s.var[i] = <<>>
    THEN [kind |-> "panic", err |-> "unwrap", oVar |-> <<>>, var |-> <<>>]
    ELSE [kind |-> "Ok", err |-> "", oVar |-> s.oVar,
          var |-> [i \in 1..Len(s.var) |-> s.var[i][1]]]

\* The whole expansion as a function of its inputs.
RECURSIVE AttrsPass(_, _, _, _)
AttrsPass(al, opts, reqs, s) ==
    IF al = <<>> THEN s
    ELSE AttrsPass(Tail(al), opts, reqs, MatchArm(Head(al), opts, reqs, s))

get_attrs(al, opts, reqs) == AttrsReturn(AttrsPass(al, opts, reqs, EmptySlots(opts, reqs)))

NoAttrsOut == [kind |-> "none", err |-> "", oVar |-> <<>>, var |-> <<>>]

\* The attribute names and values, and the invocations, SpecAttrs runs.  The
\* first invocation is the one of parse_data and parse_infinite_data; the
\* names of one invocation are distinct patterns.
AttrNames == {"encoding", "x", "y"}
AttrValues == {"csv", "16", "-16"}
Attribute == [name : AttrNames, value : AttrValues]

DataSpecs == <<[name |-> "encoding", method |-> "some"],
               [name |-> "compression", method |-> "some"]>>

Invocations ==
    { [optionals |-> DataSpecs, required |-> <<>>],
      [optionals |-> <<>>,
       required |-> <<[name |-> "x", method |-> "parse_i32"],
                      [name |-> "y", method |-> "parse_i32"]>>],
      [optionals |-> <<[name |-> "encoding", method |-> "some"],
                       [name |-> "y", method |-> "parse_u32"]>>,
       required |-> <<[name |-> "x", method |-> "parse_u32"]>>] }

AttrsIdle ==
    /\ attrs = <<>> /\ optionals = <<>> /\ required = <<>> /\ ai = 0
    /\ slots = EmptySlots(<<>>, <<>>) /\ seen = <<>> /\ attrsOut = NoAttrsOut

InitAttrs ==
    /\ attrs \in SeqsUpTo(Attribute, MaxAttrs)
    /\ \E inv \in Invocations :
        /\ optionals = inv.optionals
        /\ required = inv.required
        /\ slots = EmptySlots(inv.optionals, inv.required)
    /\ ai = 1
    /\ seen = <<>>
    /\ attrsOut = NoAttrsOut

\* for attr in $attrs.iter() { match ... }
AttrsLoop ==
    /\ attrsOut.kind = "none"
    /\ ai >= 1 /\ ai <= Len(attrs)
    /\ slots' = MatchArm(attrs[ai], optionals, required, slots)
    /\ seen' = Append(seen, attrs[ai])
    /\ ai' = ai + 1
    /\ UNCHANGED <<attrs, optionals, required, attrsOut, gridVars, csvVars, parseVars>>

\* The loop is over: the check of the required slots and the value.
AttrsDone ==
    /\ attrsOut.kind = "none"
    /\ ai = Len(attrs) + 1
    /\ attrsOut' = AttrsReturn(slots)
    /\ UNCHANGED <<attrs, optionals, required, ai, slots, seen, gridVars, csvVars, parseVars>>

(***************************************************************************)
(* u32 tile values.  TLC's integers are 32-bit signed, so a u32 is kept as *)
(* its two 16-bit halves: the value is hi * 65536 + lo.  A LayerTile is    *)
(* determined by the u32 LayerTile::new gets and is modelled by it.        *)
(***************************************************************************)
U32(b3, b2, b1, b0) == [hi |-> b3 * 256 + b2, lo |-> b1 * 256 + b0]

\* The four little-endian bytes of a u32 (what a writer of the format emits).
LeBytes(u) == <<u.lo % 256, u.lo \div 256, u.hi % 256, u.hi \div 256>>

\* The decimal digits of a u32 (what a writer of the format emits).
RECURSIVE Decimal(_)
Decimal(u) ==
    LET t == (u.hi % 10) * 65536 + u.lo
        q == [hi |-> u.hi \div 10, lo |-> t \div 10]
        d == Digits[(t % 10) + 1]
    IN  IF q.hi = 0 /\ q.lo = 0 THEN <<d>> ELSE Append(Decimal(q), d)

\* str::parse::<u32>() of a CSV token: an optional '+', digits only, one at
\* least, and no value above u32::MAX.
RECURSIVE U32Digits(_, _)
U32Digits(cs, acc) ==
    IF cs = <<>> \/ acc = <<>> THEN acc
    ELSE LET lo1 == acc[1].lo * 10 + DigitVal(Head(cs))
             hi1 == acc[1].hi * 10 + lo1 \div 65536
         IN  U32Digits(Tail(cs),
                       IF hi1 > 65535 THEN <<>> ELSE <<[hi |-> hi1, lo |-> lo1 % 65536]>>)

ParseTile(cs) ==
    LET body == IF cs # <<>> /\ Head(cs) = "+" THEN Tail(cs) ELSE cs
    IN  IF body = <<>> \/ \E i \in 1..Len(body) : ~IsDigit(body[i])
        THEN <<>>
        ELSE U32Digits(body, <<[hi |-> 0, lo |-> 0]>>)

(***************************************************************************)
(* decode_csv: the Characters arm.                                         *)
(***************************************************************************)
IsSep(c) == c \in {"\n", "\r", ","}
IsWhite(c) == c \in {" ", "\t", "\n", "\r"}

\* s.split(&['\n', '\r', ','][0..])
RECURSIVE Split(_, _)
Split(s, tok) ==
    IF s = <<>> THEN <<tok>>
    ELSE IF IsSep(Head(s)) THEN <<tok>> \o Split(Tail(s), <<>>)
    ELSE Split(Tail(s), Append(tok, Head(s)))

\* .filter(|v| v.trim() != "")
NotBlank(v) == \E i \in 1..Len(v) : ~IsWhite(v[i])

\* The tokens tiles_it walks.  The iterator is lazy: a token is parsed (and
\* unwrap panics on a token that is no u32) only when peek or take reaches it.
Tokens(s) == SelectSeq(Split(s, <<>>), NotBlank)

\* One iteration of `while tiles_it.peek().is_some()`: peek parses the first
\* token, take(width) the `width` next ones (none when width is 0).
CsvLoopStep(it, rs, w) ==
    LET n == Min(w, Len(it))
        parsed == [i \in 1..n |-> ParseTile(it[i])]
    IN  IF ParseTile(Head(it)) = <<>> \/ \E i \in 1..n : parsed[i] = <<>>
        THEN [panic |-> TRUE, it |-> it, rows |-> rs]
        ELSE [panic |-> FALSE, it |-> Drop(it, n),
              rows |-> Append(rs, [i \in 1..n |-> parsed[i][1]])]

NoGrid == [kind |-> "none", err |-> "", val |-> <<>>]
OkGrid(g) == [kind |-> "Ok", err |-> "", val |-> g]
ErrGrid(e) == [kind |-> "Err", err |-> e, val |-> <<>>]
PanicGrid(why) == [kind |-> "panic", err |-> why, val |-> <<>>]

(***************************************************************************)
(* convert_to_tile                                                         *)
(***************************************************************************)
\* all.chunks(n) for n > 0
RECURSIVE ChunksOf(_, _)
ChunksOf(bytes, n) ==
    IF bytes = <<>> THEN <<>>
    ELSE <<Take(bytes, n)>> \o ChunksOf(Drop(bytes, n), n)

\* The inner loop: chunk[start + 3] is out of bounds, and the index panics,
\* when the chunk holds fewer than width * 4 bytes.
RowPanics(chunk, w) == \E i \in 0..(w - 1) : i * 4 + 3 >= Len(chunk)

TileRow(chunk, w) ==
    [k \in 1..w |-> U32(chunk[(k - 1) * 4 + 4], chunk[(k - 1) * 4 + 3],
                        chunk[(k - 1) * 4 + 2], chunk[(k - 1) * 4 + 1])]

\* slice::chunks panics on a chunk size of 0.
convert_to_tile(bytes, w) ==
    IF w * 4 = 0 THEN PanicGrid("chunk size must be non-zero")
    ELSE LET cs == ChunksOf(bytes, w * 4)
         IN  IF \E c \in 1..Len(cs) : RowPanics(cs[c], w)
             THEN PanicGrid("index out of bounds")
             ELSE OkGrid([c \in 1..Len(cs) |-> TileRow(cs[c], w)])

(***************************************************************************)
(* SpecGrid: the two decoders on the two encodings of the same tiles.      *)
(***************************************************************************)
\* Tile values: 1, 258 and 1 with the horizontal flip flag (0x80000001).
TileVals == {U32(0, 0, 0, 1), U32(0, 0, 1, 2), U32(128, 0, 0, 1)}

\* Bytes after the last whole tile of a buffer.
Trailing == {<<>>, <<7>>, <<7, 0>>, <<7, 0, 0>>}

RECURSIVE Flatten(_)
Flatten(qs) == IF qs = <<>> THEN <<>> ELSE Head(qs) \o Flatten(Tail(qs))

\* The little-endian buffer of a sequence of tiles.
ToBytes(vs) == Flatten([i \in 1..Len(vs) |-> LeBytes(vs[i])])

\* The CSV text of a sequence of tiles, laid out as the editor writes it: a
\* line per row of w tiles, a comma after every tile but the last.
RECURSIVE CsvText(_, _, _)
CsvText(vs, w, k) ==
    IF vs = <<>> THEN <<"\n">>
    ELSE Decimal(Head(vs))
         \o (IF Tail(vs) = <<>> THEN <<>>
             ELSE <<",">> \o (IF w > 0 /\ k % w = 0 THEN <<"\n">> ELSE <<>>))
         \o CsvText(Tail(vs), w, k + 1)

ToCsv(vs, w) == <<"\n">> \o CsvText(vs, w, 1)

GridIdle ==
    /\ vals = <<>> /\ all = <<>> /\ gwidth = 0 /\ gpc = "idle"
    /\ csvOut = NoGrid /\ convOut = NoGrid

CsvIdle == tiles_it = <<>> /\ rows = <<>>

\* XmlEvent::Characters(s) => the iterator is built.
GridCharacters ==
    /\ gpc = "characters"
    /\ tiles_it' = Tokens(ToCsv(vals, gwidth))
    /\ rows' = <<>>
    /\ gpc' = "rows"
    /\ UNCHANGED <<vals, all, gwidth, csvOut, convOut, attrVars, parseVars>>

\* while tiles_it.peek().is_some() { ... }
GridCsvLoop ==
    /\ gpc = "rows"
    /\ tiles_it # <<>>
    /\ Len(rows) < MaxRows
    /\ LET st == CsvLoopStep(tiles_it, rows, gwidth)
       IN  IF st.panic
           THEN /\ csvOut' = PanicGrid("unwrap")
                /\ gpc' = "done"
                /\ UNCHANGED <<tiles_it, rows>>
           ELSE /\ tiles_it' = st.it
                /\ rows' = st.rows
                /\ UNCHANGED <<gpc, csvOut>>
    /\ UNCHANGED <<vals, all, gwidth, convOut, attrVars, parseVars>>

\* return Ok(rows)
GridCsvReturn ==
    /\ gpc = "rows"
    /\ tiles_it = <<>>
    /\ csvOut' = OkGrid(rows)
    /\ gpc' = "done"
    /\ UNCHANGED <<vals, all, gwidth, convOut, tiles_it, rows, attrVars, parseVars>>

\* convert_to_tile(&v, width) on the decoded buffer
GridConvert ==
    /\ gpc # "idle"
    /\ convOut.kind = "none"
    /\ convOut' = convert_to_tile(all, gwidth)
    /\ UNCHANGED <<vals, all, gwidth, gpc, csvOut, tiles_it, rows, attrVars, parseVars>>

(***************************************************************************)
(* The byte decoders.  base64::decode and the libflate and zstd decoders   *)
(* are libraries: a text carries what base64::decode makes of it (b64,     *)
(* <<>> when it is not base64), and a buffer the codec of the stream it    *)
(* holds and what that stream inflates to.                                 *)
(***************************************************************************)
NoBytes == [bytes |-> <<>>, codec |-> "none", plain |-> <<>>]
NoText == [chars |-> <<>>, b64 |-> <<>>]

\* "1,2,3": CSV of the tiles 1, 2 and 3; the comma is not in the base64 alphabet.
CsvSample == [chars |-> <<"1", ",", "2", ",", "3">>, b64 |-> <<>>]

\* "AQAAAAIAAAA=": the tiles 1 and 2, as they are.
B64Raw ==
    [chars |-> <<"A", "Q", "A", "A", "A", "A", "I", "A", "A", "A", "A", "=">>,
     b64 |-> <<[bytes |-> <<1, 0, 0, 0, 2, 0, 0, 0>>,
                codec |-> "none",
                plain |-> <<>>]>>]

\* "eJxjZGBgYAJiAAAYAAQ=": the tiles 1 and 2 in a zlib stream.
B64Zlib ==
    [chars |-> <<"e", "J", "x", "j", "Z", "G", "B", "g", "Y", "A", "J", "i",
               "A", "A", "A", "Y", "A", "A", "Q", "=">>,
     b64 |-> <<[bytes |-> <<120, 156, 99, 100, 96, 96, 96, 2, 98, 0, 0, 24,
                           0, 4>>,
                codec |-> "zlib",
                plain |-> <<1, 0, 0, 0, 2, 0, 0, 0>>]>>]

\* "H4sIAAAAAAAC/2NkYGBgAmIAfBeBAwgAAAA=": the tiles 1 and 2 in a gzip member.
B64Gzip ==
    [chars |-> <<"H", "4", "s", "I", "A", "A", "A", "A", "A", "A", "A", "C",
               "/", "2", "N", "k", "Y", "G", "B", "g", "A", "m", "I", "A",
               "f", "B", "e", "B", "A", "w", "g", "A", "A", "A", "A", "=">>,
     b64 |-> <<[bytes |-> <<31, 139, 8, 0, 0, 0, 0, 0, 2, 255, 99, 100, 96,
                           96, 96, 2, 98, 0, 124, 23, 129, 3, 8, 0, 0, 0>>,
                codec |-> "gzip",
                plain |-> <<1, 0, 0, 0, 2, 0, 0, 0>>]>>]

\* "KLUv/SAIQQAAAQAAAAIAAAA=": the tiles 1 and 2 in a zstd frame (one raw block).
B64Zstd ==
    [chars |-> <<"K", "L", "U", "v", "/", "S", "A", "I", "Q", "Q", "A", "A",
               "A", "Q", "A", "A", "A", "A", "I", "A", "A", "A", "A", "=">>,
     b64 |-> <<[bytes |-> <<40, 181, 47, 253, 32, 8, 65, 0, 0, 1, 0, 0, 0, 2,
                           0, 0, 0>>,
                codec |-> "zstd",
                plain |-> <<1, 0, 0, 0, 2, 0, 0, 0>>]>>]

Texts == {CsvSample, B64Raw, B64Zlib, B64Gzip, B64Zstd}

\* base64::decode(s.trim().as_bytes())
base64_decode(s) == s.b64

\* Decoder::new(..) and read_to_end: an error unless the buffer holds a
\* stream of the decoder's codec.
Inflate(codec, data) ==
    IF data.codec = codec
    THEN <<[bytes |-> data.plain, codec |-> "none", plain |-> <<>>]>>
    ELSE <<>>

decode_zlib(data) == Inflate("zlib", data)
decode_gzip(data) == Inflate("gzip", data)
decode_zstd(data) == Inflate("zstd", data)

(***************************************************************************)
(* parse_data_line: the match on (encoding, compression).                  *)
(***************************************************************************)
Fail == [kind |-> "Err", decoder |-> "", stage |-> ""]
Run(decoder, stage) == [kind |-> "Run", decoder |-> decoder, stage |-> stage]

\* A (Some(e), Some(c)) arm that takes any compression of base64 text for
\* zlib (mutant of Compressed).
CompressedAnyIsZlib(e, c, z) ==
    IF e = "base64" THEN Run("parse_base64", "decode_zlib") ELSE Fail

\* (Some(e), Some(c)) => match (e.as_ref(), c.as_ref())
Compressed(e, c, z) ==
    CASE e = "base64" /\ c = "zlib" -> Run("parse_base64", "decode_zlib")
      [] e = "base64" /\ c = "gzip" -> Run("parse_base64", "decode_gzip")
      [] e = "base64" /\ c = "zstd" /\ z -> Run("parse_base64", "decode_zstd")
      [] OTHER -> Fail

\* (Some(e), None) => match e.as_ref()
Uncompressed(e) ==
    CASE e = "base64" -> Run("parse_base64", "")
      [] e = "csv" -> Run("decode_csv", "")
      [] OTHER -> Fail

parse_data_line(e, c, z) ==
    CASE e = <<>> /\ c = <<>> -> Fail
      [] e # <<>> /\ c = <<>> -> Uncompressed(e[1])
      [] e # <<>> /\ c # <<>> -> Compressed(e[1], c[1], z)
      [] OTHER -> Fail

\* .and_then(decode_*) of the route, on the buffer parse_base64 returned.
AndThen(stage, v) ==
    CASE stage = "decode_zlib" -> decode_zlib(v)
      [] stage = "decode_gzip" -> decode_gzip(v)
      [] stage = "decode_zstd" -> decode_zstd(v)
      [] OTHER -> <<v>>

\* parse_base64(parser).and_then(decode_*).map(|v| convert_to_tile(&v, width)),
\* from the Result parse_base64 returns (<<>>: a Base64DecodingError) on:
\* the value, and the stages that ran.
Base64Route(stage, b, w) ==
    IF b = <<>>
    THEN [res |-> ErrGrid("Base64DecodingError"), ran |-> <<>>]
    ELSE LET d == AndThen(stage, b[1])
             first == IF stage = "" THEN <<>> ELSE <<stage>>
         IN  IF d = <<>>
             THEN [res |-> ErrGrid("DecompressingError"), ran |-> first]
             ELSE [res |-> convert_to_tile(d[1].bytes, w),
                   ran |-> Append(first, "convert_to_tile")]

(***************************************************************************)
(* The event source: xml-rs's EventReader.  Tags nest; EndDocument and a   *)
(* decoding error may come at any point, and after EndDocument next()      *)
(* returns EndDocument again.  Whitespace stands for the events no loop    *)
(* has an arm for.                                                         *)
(***************************************************************************)
Event(t, n, a, s) == [type |-> t, name |-> n, attributes |-> a, s |-> s]

Attr(n, v) == [name |-> n, value |-> v]

\* The attribute lists of the chunk tags: origin (0,0) with width 2 and with
\* width 1, origin (16,0), and a tag without y, width and height.
ChunkAttrLists ==
    { <<Attr("x", "0"), Attr("y", "0"), Attr("width", "2"), Attr("height", "1")>>,
      <<Attr("x", "0"), Attr("y", "0"), Attr("width", "1"), Attr("height", "2")>>,
      <<Attr("x", "16"), Attr("y", "0"), Attr("width", "2"), Attr("height", "1")>>,
      <<Attr("x", "0")>> }

FrameAttrLists ==
    { <<Attr("tileid", "1"), Attr("duration", "16")>>, <<Attr("tileid", "1")>> }

AttrLists(n) ==
    CASE n = "chunk" -> ChunkAttrLists
      [] n = "frame" -> FrameAttrLists
      [] OTHER -> {<<>>}

TagNames == IF fn = "parse_animation" THEN {"animation", "frame"} ELSE {"data", "chunk"}

XmlNext ==
    IF ended THEN {Event("EndDocument", "", <<>>, NoText)}
    ELSE (IF Len(open) < MaxDepth
          THEN UNION {{Event("StartElement", n, a, NoText) : a \in AttrLists(n)} : n \in TagNames}
          ELSE {})
         \cup (IF open # <<>>
               THEN {Event("EndElement", open[Len(open)], <<>>, NoText)}
               ELSE {})
         \cup {Event("Characters", "", <<>>, t) : t \in Texts}
         \cup {Event("Whitespace", "", <<>>, NoText),
               Event("EndDocument", "", <<>>, NoText),
               Event("Err", "", <<>>, NoText)}

\* Chunk::new's and Frame::new's get_attrs! invocations (src/layers.rs and
\* src/animation.rs).
ChunkSpecs == <<[name |-> "x", method |-> "parse_i32"],
                [name |-> "y", method |-> "parse_i32"],
                [name |-> "width", method |-> "parse_u32"],
                [name |-> "height", method |-> "parse_u32"]>>

FrameSpecs == <<[name |-> "tileid", method |-> "parse_u32"],
                [name |-> "duration", method |-> "parse_u32"]>>

\* parser.next() by the loop `by`: the source moves on, and the histories
\* record the event.
Pull(by, ev) ==
    /\ nEvents < MaxEvents
    /\ ev \in XmlNext
    /\ nEvents' = nEvents + 1
    /\ last' = [by |-> by, type |-> ev.type, name |-> ev.name]
    /\ open' = CASE ev.type = "StartElement" -> Append(open, ev.name)
                 [] ev.type = "EndElement" -> SubSeq(open, 1, Len(open) - 1)
                 [] OTHER -> open
    /\ rootClosed' = (rootClosed \/ (ev.type = "EndElement" /\ Len(open) = 1))
    /\ ended' = (ended \/ ev.type = "EndDocument")
    /\ children' =
         LET a == get_attrs(ev.attributes, <<>>, ChunkSpecs)
         IN  IF /\ ev.type = "StartElement" /\ ev.name = "chunk"
                /\ Len(open) = 1 /\ ~rootClosed /\ a.kind = "Ok"
             THEN Append(children, [x |-> a.var[1], y |-> a.var[2], width |-> a.var[3]])
             ELSE children

(***************************************************************************)
(* The entry points.                                                       *)
(***************************************************************************)
NoChunk == [x |-> 0, y |-> 0, width |-> 0, height |-> 0]
NoEvent == [by |-> "", type |-> "", name |-> ""]
NoCaller == [by |-> "", depth |-> 0]
NoChunks == [o \in {} |-> NoChunk]

\* chunks.insert((chunk.x, chunk.y), chunk): a HashMap keeps one value per key.
Insert(m, k, v) == [o \in DOMAIN m \cup {k} |-> IF o = k THEN v ELSE m[o]]

\* parse_data_line(e, c, parser, w), called by `who` inside a tag at `depth`:
\* an unrecognized pair is an error at once, else the control is in the
\* decoder's loop.
EnterDataLine(e, c, w, who, depth) ==
    LET r == parse_data_line(e, c, zstd)
    IN  /\ ctx' = [by |-> who, depth |-> depth]
        /\ width' = w
        /\ IF r.kind = "Err"
           THEN pc' = "done" /\ result' = ErrGrid("Other") /\ calls' = <<>>
           ELSE pc' = r.decoder /\ result' = result /\ calls' = <<r.decoder>>

\* parse_data_line returns `res` to its caller.  parse_data wraps the tiles
\* (LayerData::Finite) and `?` passes an error on; Chunk::new builds the chunk,
\* which the handler of parse_infinite_data inserts before parse_tag! goes on.
ReturnTiles(res) ==
    IF ctx.by = "chunk" /\ res.kind = "Ok"
    THEN /\ chunks' = Insert(chunks, <<cur.x, cur.y>>,
                             [x |-> cur.x, y |-> cur.y, width |-> cur.width,
                              height |-> cur.height, tiles |-> res.val])
         /\ pc' = "parse_tag"
         /\ UNCHANGED result
    ELSE /\ result' = res
         /\ pc' = "done"
         /\ UNCHANGED chunks

sourceVars == <<open, rootClosed, ended, nEvents, last, children>>

ParseData ==
    /\ pc = "entry" /\ fn = "parse_data"
    /\ LET a == get_attrs(attrs, DataSpecs, <<>>)
       IN  /\ encoding' = a.oVar[1]
           /\ compression' = a.oVar[2]
           /\ EnterDataLine(a.oVar[1], a.oVar[2], width, "parse_data", Len(open))
    /\ UNCHANGED <<attrVars, gridVars, fn, zstd, cur, chunks, animation, sourceVars, csvVars>>

ParseInfiniteData ==
    /\ pc = "entry" /\ fn = "parse_infinite_data"
    /\ LET a == get_attrs(attrs, DataSpecs, <<>>)
       IN  /\ encoding' = a.oVar[1]
           /\ compression' = a.oVar[2]
    /\ chunks' = NoChunks
    /\ pc' = "parse_tag"
    /\ UNCHANGED <<attrVars, gridVars, fn, width, zstd, ctx, cur, calls, animation, result, sourceVars, csvVars>>

ParseAnimation ==
    /\ pc = "entry" /\ fn = "parse_animation"
    /\ animation' = <<>>
    /\ pc' = "parse_tag"
    /\ UNCHANGED <<attrVars, gridVars, fn, encoding, compression, width, zstd, ctx, cur, calls, chunks,
                   result, sourceVars, csvVars>>

(***************************************************************************)
(* parse_tag!                                                              *)
(***************************************************************************)
CloseTag == IF fn = "parse_animation" THEN "animation" ELSE "data"
OpenTag == IF fn = "parse_animation" THEN "frame" ELSE "chunk"

\* A test that lets any end-tag close the loop (mutant of IsCloseTag).
IsCloseTagAny(name, close_tag) == TRUE

\* name.local_name == $close_tag
IsCloseTag(name, close_tag) == name = close_tag

\* The handler of parse_infinite_data: Chunk::new(parser, attrs, e, c)?, which
\* reads x, y, width and height and has parse_data_line decode the content
\* with the chunk's width.
ChunkHandler(attributes) ==
    LET a == get_attrs(attributes, <<>>, ChunkSpecs)
    IN  IF a.kind # "Ok"
        THEN /\ result' = ErrGrid("MalformedAttributes")
             /\ pc' = "done"
             /\ UNCHANGED <<ctx, width, calls, cur>>
        ELSE /\ cur' = [x |-> a.var[1], y |-> a.var[2],
                        width |-> a.var[3], height |-> a.var[4]]
             /\ EnterDataLine(encoding, compression, a.var[3], "chunk", Len(open) + 1)

\* The handler of parse_animation: animation.push(Frame::new(attrs)?).
FrameHandler(attributes) ==
    LET a == get_attrs(attributes, <<>>, FrameSpecs)
    IN  IF a.kind # "Ok"
        THEN /\ result' = ErrGrid("MalformedAttributes")
             /\ pc' = "done"
             /\ UNCHANGED animation
        ELSE /\ animation' = Append(animation, [tile_id |-> a.var[1], duration |-> a.var[2]])
             /\ UNCHANGED <<result, pc>>

\* StartElement: the handler of the tag that matches, nothing for another tag.
ParseTagStart ==
    /\ pc = "parse_tag"
    /\ \E ev \in XmlNext :
        /\ ev.type = "StartElement"
        /\ Pull("parse_tag", ev)
        /\ IF ev.name # OpenTag
           THEN UNCHANGED <<pc, ctx, width, calls, cur, animation, result>>
           ELSE IF fn = "parse_animation"
           THEN FrameHandler(ev.attributes) /\ UNCHANGED <<ctx, width, calls, cur>>
           ELSE ChunkHandler(ev.attributes) /\ UNCHANGED animation
    /\ UNCHANGED <<attrVars, gridVars, fn, encoding, compression, zstd, chunks, csvVars>>

\* EndElement: break on the closing tag; the entry point returns Ok.
ParseTagEnd ==
    /\ pc = "parse_tag"
    /\ \E ev \in XmlNext :
        /\ ev.type = "EndElement"
        /\ Pull("parse_tag", ev)
        /\ IF IsCloseTag(ev.name, CloseTag)
           THEN pc' = "done" /\ result' = OkGrid(<<>>)
           ELSE UNCHANGED <<pc, result>>
    /\ UNCHANGED <<attrVars, gridVars, fn, encoding, compression, width, zstd, ctx, cur, calls, chunks,
                   animation, csvVars>>

\* EndDocument => return Err(TiledError::PrematureEnd(..))
ParseTagEndDocument ==
    /\ pc = "parse_tag"
    /\ \E ev \in XmlNext :
        /\ ev.type = "EndDocument"
        /\ Pull("parse_tag", ev)
    /\ pc' = "done"
    /\ result' = ErrGrid("PrematureEnd")
    /\ UNCHANGED <<attrVars, gridVars, fn, encoding, compression, width, zstd, ctx, cur, calls, chunks,
                   animation, csvVars>>

\* parser.next().map_err(TiledError::XmlDecodingError)?
ParseTagErr ==
    /\ pc = "parse_tag"
    /\ \E ev \in XmlNext :
        /\ ev.type = "Err"
        /\ Pull("parse_tag", ev)
    /\ pc' = "done"
    /\ result' = ErrGrid("XmlDecodingError")
    /\ UNCHANGED <<attrVars, gridVars, fn, encoding, compression, width, zstd, ctx, cur, calls, chunks,
                   animation, csvVars>>

\* _ => {}
ParseTagOther ==
    /\ pc = "parse_tag"
    /\ \E ev \in XmlNext :
        /\ ev.type \in {"Characters", "Whitespace"}
        /\ Pull("parse_tag", ev)
    /\ UNCHANGED <<attrVars, gridVars, fn, pc, encoding, compression, width, zstd, ctx, cur, calls, chunks,
                   animation, result, csvVars>>

(***************************************************************************)
(* parse_base64                                                            *)
(***************************************************************************)
\* The name the decoders' EndElement arms compare with.
DataTag == "data"

\* Characters(s) => return base64::decode(..); the caller's and_then and map
\* run on what comes back.
ParseBase64Characters ==
    /\ pc = "parse_base64"
    /\ \E ev \in XmlNext :
        /\ ev.type = "Characters"
        /\ Pull("parse_base64", ev)
        /\ LET r == Base64Route(parse_data_line(encoding, compression, zstd).stage,
                                base64_decode(ev.s), width)
           IN  /\ calls' = calls \o r.ran
               /\ ReturnTiles(r.res)
    /\ UNCHANGED <<attrVars, gridVars, fn, encoding, compression, width, zstd, ctx, cur, animation, csvVars>>

\* EndElement: return Ok(Vec::new()) on the end of a data tag.
ParseBase64End ==
    /\ pc = "parse_base64"
    /\ \E ev \in XmlNext :
        /\ ev.type = "EndElement"
        /\ Pull("parse_base64", ev)
        /\ IF ev.name = DataTag
           THEN LET r == Base64Route(parse_data_line(encoding, compression, zstd).stage,
                                     <<NoBytes>>, width)
                IN  /\ calls' = calls \o r.ran
                    /\ ReturnTiles(r.res)
           ELSE UNCHANGED <<pc, calls, chunks, result>>
    /\ UNCHANGED <<attrVars, gridVars, fn, encoding, compression, width, zstd, ctx, cur, animation, csvVars>>

\* parser.next().map_err(TiledError::XmlDecodingError)?
ParseBase64Err ==
    /\ pc = "parse_base64"
    /\ \E ev \in XmlNext :
        /\ ev.type = "Err"
        /\ Pull("parse_base64", ev)
    /\ pc' = "done"
    /\ result' = ErrGrid("XmlDecodingError")
    /\ UNCHANGED <<attrVars, gridVars, fn, encoding, compression, width, zstd, ctx, cur, calls, chunks,
                   animation, csvVars>>

\* _ => {}: a start-tag, whitespace and EndDocument alike.
ParseBase64Other ==
    /\ pc = "parse_base64"
    /\ \E ev \in XmlNext :
        /\ ev.type \in {"StartElement", "Whitespace", "EndDocument"}
        /\ Pull("parse_base64", ev)
    /\ UNCHANGED <<attrVars, gridVars, fn, pc, encoding, compression, width, zstd, ctx, cur, calls, chunks,
                   animation, result, csvVars>>

(***************************************************************************)
(* decode_csv                                                              *)
(***************************************************************************)
\* Characters(s) => the iterator over the tokens of s, and no row yet.
DecodeCsvCharacters ==
    /\ pc = "decode_csv"
    /\ \E ev \in XmlNext :
        /\ ev.type = "Characters"
        /\ Pull("decode_csv", ev)
        /\ tiles_it' = Tokens(ev.s.chars)
    /\ rows' = <<>>
    /\ pc' = "csv_rows"
    /\ UNCHANGED <<attrVars, gridVars, fn, encoding, compression, width, zstd, ctx, cur, calls, chunks,
                   animation, result>>

\* while tiles_it.peek().is_some() { rows.push(take(width).collect()) }
DecodeCsvLoop ==
    /\ pc = "csv_rows"
    /\ tiles_it # <<>>
    /\ Len(rows) < MaxRows
    /\ LET st == CsvLoopStep(tiles_it, rows, width)
       IN  IF st.panic
           THEN /\ result' = PanicGrid("unwrap")
                /\ pc' = "done"
                /\ UNCHANGED <<tiles_it, rows>>
           ELSE /\ tiles_it' = st.it
                /\ rows' = st.rows
                /\ UNCHANGED <<pc, result>>
    /\ UNCHANGED <<attrVars, gridVars, fn, encoding, compression, width, zstd, ctx, cur, calls, chunks,
                   animation, sourceVars>>

\* return Ok(rows)
DecodeCsvReturn ==
    /\ pc = "csv_rows"
    /\ tiles_it = <<>>
    /\ ReturnTiles(OkGrid(rows))
    /\ UNCHANGED <<attrVars, gridVars, fn, encoding, compression, width, zstd, ctx, cur, calls, animation,
                   sourceVars, csvVars>>

\* EndElement: return Ok(Vec::new()) on the end of a data tag.
DecodeCsvEnd ==
    /\ pc = "decode_csv"
    /\ \E ev \in XmlNext :
        /\ ev.type = "EndElement"
        /\ Pull("decode_csv", ev)
        /\ IF ev.name = DataTag
           THEN ReturnTiles(OkGrid(<<>>))
           ELSE UNCHANGED <<pc, chunks, result>>
    /\ UNCHANGED <<attrVars, gridVars, fn, encoding, compression, width, zstd, ctx, cur, calls, animation,
                   csvVars>>

\* parser.next().map_err(TiledError::XmlDecodingError)?
DecodeCsvErr ==
    /\ pc = "decode_csv"
    /\ \E ev \in XmlNext :
        /\ ev.type = "Err"
        /\ Pull("decode_csv", ev)
    /\ pc' = "done"
    /\ result' = ErrGrid("XmlDecodingError")
    /\ UNCHANGED <<attrVars, gridVars, fn, encoding, compression, width, zstd, ctx, cur, calls, chunks,
                   animation, csvVars>>

\* _ => {}: a start-tag, whitespace and EndDocument alike.
DecodeCsvOther ==
    /\ pc = "decode_csv"
    /\ \E ev \in XmlNext :
        /\ ev.type \in {"StartElement", "Whitespace", "EndDocument"}
        /\ Pull("decode_csv", ev)
    /\ UNCHANGED <<attrVars, gridVars, fn, pc, encoding, compression, width, zstd, ctx, cur, calls, chunks,
                   animation, result, csvVars>>

(***************************************************************************)
(* The specifications.                                                     *)
(***************************************************************************)
ParseIdle ==
    /\ fn = "" /\ pc = "idle" /\ encoding = <<>> /\ compression = <<>> /\ width = 0
    /\ zstd = FALSE /\ ctx = NoCaller /\ cur = NoChunk /\ open = <<>> /\ rootClosed = FALSE
    /\ ended = FALSE /\ nEvents = 0 /\ last = NoEvent /\ children = <<>>
    /\ calls = <<>> /\ chunks = NoChunks /\ animation = <<>> /\ result = NoGrid

\* The attribute lists of the data tag: every pair of an encoding and a
\* compression, each absent, recognized or unknown.
DataAttrLists ==
    { e \o c : e \in {<<>>} \cup {<<Attr("encoding", v)>> : v \in {"base64", "csv", "xml"}},
               c \in {<<>>} \cup {<<Attr("compression", v)>> :
                                    v \in {"zlib", "gzip", "zstd", "brotli"}} }

\* An entry point is called just inside its tag, with the tag's attributes.
Init ==
    /\ fn \in {"parse_data", "parse_infinite_data", "parse_animation"}
    /\ attrs \in (IF fn = "parse_animation" THEN {<<>>} ELSE DataAttrLists)
    /\ width \in (IF fn = "parse_data" THEN 0..MaxWidth ELSE {0})
    /\ zstd \in BOOLEAN
    /\ pc = "entry"
    /\ encoding = <<>> /\ compression = <<>> /\ ctx = NoCaller /\ cur = NoChunk
    /\ open = <<CloseTag>> /\ rootClosed = FALSE /\ ended = FALSE /\ nEvents = 0
    /\ last = NoEvent /\ children = <<>> /\ calls = <<>> /\ chunks = NoChunks
    /\ animation = <<>> /\ result = NoGrid
    /\ optionals = <<>> /\ required = <<>> /\ ai = 0
    /\ slots = EmptySlots(<<>>, <<>>) /\ seen = <<>> /\ attrsOut = NoAttrsOut
    /\ GridIdle /\ CsvIdle

Next ==
    \/ ParseData \/ ParseInfiniteData \/ ParseAnimation
    \/ ParseTagStart \/ ParseTagEnd \/ ParseTagEndDocument \/ ParseTagErr \/ ParseTagOther
    \/ ParseBase64Characters \/ ParseBase64End \/ ParseBase64Err \/ ParseBase64Other
    \/ DecodeCsvCharacters \/ DecodeCsvLoop \/ DecodeCsvReturn \/ DecodeCsvEnd
    \/ DecodeCsvErr \/ DecodeCsvOther

Spec == Init /\ [][Next]_vars

InitAttrsSpec == InitAttrs /\ GridIdle /\ CsvIdle /\ ParseIdle

NextAttrs == AttrsLoop \/ AttrsDone

SpecAttrs == InitAttrsSpec /\ [][NextAttrs]_vars

\* The tiles, the width, and the buffer: the tiles' bytes and what trails them.
InitGrid ==
    /\ vals \in SeqsUpTo(TileVals, MaxTiles)
    /\ \E t \in Trailing : all = ToBytes(vals) \o t
    /\ gwidth \in 0..MaxWidth
    /\ gpc = "characters"
    /\ csvOut = NoGrid /\ convOut = NoGrid
    /\ CsvIdle /\ AttrsIdle /\ ParseIdle

NextGrid == GridCharacters \/ GridCsvLoop \/ GridCsvReturn \/ GridConvert

SpecGrid == InitGrid /\ [][NextGrid]_vars

(***************************************************************************)
(* get_attrs!: the claims (SpecAttrs).                                     *)
(***************************************************************************)
\* The index of the last attribute of `al` named `name`, 0 when none is.
LastNamed(al, name) ==
    IF \E i \in 1..Len(al) : al[i].name = name
    THEN CHOOSE i \in 1..Len(al) :
             /\ al[i].name = name
             /\ \A j \in (i + 1)..Len(al) : al[j].name # name
    ELSE 0

\* What a spec's conversion makes of the last attribute of `al` with the
\* spec's name: nothing when there is no such attribute.
LastValue(al, spec) ==
    IF LastNamed(al, spec.name) = 0 THEN <<>>
    ELSE ApplyMethod(spec.method, al[LastNamed(al, spec.name)].value)

\* C5: get_attrs fails with the caller's MalformedAttributes error exactly
\* when a required spec has no value after the pass (its name is not in the
\* list, or the conversion of its value yields nothing); otherwise it returns
\* the optional values (absent where unmatched) and the required values, each
\* group in the declared order.
C5_RequiredDecideFailure ==
    attrsOut.kind # "none" =>
        IF \E i \in 1..Len(required) : LastValue(attrs, required[i]) = <<>>
        THEN attrsOut.kind = "Err" /\ attrsOut.err = "MalformedAttributes"
        ELSE /\ attrsOut.kind = "Ok"
             /\ attrsOut.oVar = [i \in 1..Len(optionals) |-> LastValue(attrs, optionals[i])]
             /\ attrsOut.var = [i \in 1..Len(required) |-> LastValue(attrs, required[i])[1]]

\* get_attrs has failed, on a list that names the first required spec.
C5_Witness ==
    /\ attrsOut.kind = "Err"
    /\ required # <<>>
    /\ \E i \in 1..Len(attrs) : attrs[i].name = required[1].name

\* C9: in one pass over the list, every slot holds the conversion of the last
\* attribute visited so far that has the slot's name: a later occurrence of a
\* name overwrites what an earlier one set, and the values returned are those
\* of the last occurrences.
C9_LastOccurrenceWins ==
    /\ seen = SubSeq(attrs, 1, Len(seen))
    /\ (ai > 0 => Len(seen) = ai - 1)
    /\ \A i \in 1..Len(optionals) : slots.oVar[i] = LastValue(seen, optionals[i])
    /\ \A i \in 1..Len(required) : slots.var[i] = LastValue(seen, required[i])
    /\ (attrsOut.kind = "Ok" =>
          /\ \A i \in 1..Len(optionals) : attrsOut.oVar[i] = LastValue(attrs, optionals[i])
          /\ \A i \in 1..Len(required) : <<attrsOut.var[i]>> = LastValue(attrs, required[i]))

\* get_attrs has returned from a list where a name a spec matches occurs
\* twice, with two values that convert differently.
C9_Witness ==
    /\ attrsOut.kind = "Ok"
    /\ \E i, j \in 1..Len(attrs), k \in 1..Len(required) :
          /\ i < j
          /\ attrs[i].name = required[k].name
          /\ attrs[j].name = required[k].name
          /\ ApplyMethod(required[k].method, attrs[i].value)
               # ApplyMethod(required[k].method, attrs[j].value)

(***************************************************************************)
(* convert_to_tile and decode_csv side by side: the claims (SpecGrid).     *)
(***************************************************************************)
\* C3: for a width of 1 at least and a buffer of any length, convert_to_tile
\* returns a grid: no row is longer than the width, only the last row may be
\* shorter, and the grid holds one tile per 4 whole bytes of the buffer.
C3_AssemblerTotal ==
    (gwidth >= 1 /\ convOut.kind # "none") =>
        /\ convOut.kind = "Ok"
        /\ \A r \in 1..Len(convOut.val) :
              /\ Len(convOut.val[r]) <= gwidth
              /\ (r < Len(convOut.val) => Len(convOut.val[r]) = gwidth)
        /\ Len(Flatten(convOut.val)) = Len(all) \div 4

\* C6: decode_csv on the CSV text of a sequence of tiles and convert_to_tile
\* on the little-endian bytes of the same tiles return the same grid (stated
\* for the widths of 1 at least).
C6_CsvParity ==
    (gwidth >= 1 /\ all = ToBytes(vals) /\ csvOut.kind # "none" /\ convOut.kind # "none") =>
        (csvOut.kind = "Ok" /\ convOut = csvOut)

(***************************************************************************)
(* The pull parsers: the claims (Spec).                                    *)
(***************************************************************************)
\* C1: parse_tag! ends with success only right after it pulled an end-tag
\* with the closing name, and an EndDocument it pulls makes it fail with
\* PrematureEnd.
C1_TagCursorExit ==
    /\ (fn \in {"parse_infinite_data", "parse_animation"} /\ pc = "done" /\ result.kind = "Ok")
          => (last.by = "parse_tag" /\ last.type = "EndElement" /\ last.name = CloseTag)
    /\ (last.by = "parse_tag" /\ last.type = "EndDocument")
          => (pc = "done" /\ result = ErrGrid("PrematureEnd"))

\* parse_infinite_data has returned Ok with a chunk in the grid.
C1_Witness ==
    fn = "parse_infinite_data" /\ pc = "done" /\ result.kind = "Ok" /\ DOMAIN chunks # {}

\* The value of the attribute `name` of the data tag, <<>> when it has none.
TagAttr(name) ==
    IF \E i \in 1..Len(attrs) : attrs[i].name = name
    THEN <<attrs[CHOOSE i \in 1..Len(attrs) : attrs[i].name = name].value>>
    ELSE <<>>

\* The stages the dispatch table gives a pair, <<>> for a pair it rejects.
TableStages(e, c) ==
    CASE e = <<"csv">> /\ c = <<>> -> <<"decode_csv">>
      [] e = <<"base64">> /\ c = <<>> -> <<"parse_base64", "convert_to_tile">>
      [] e = <<"base64">> /\ c = <<"zlib">> -> <<"parse_base64", "decode_zlib", "convert_to_tile">>
      [] e = <<"base64">> /\ c = <<"gzip">> -> <<"parse_base64", "decode_gzip", "convert_to_tile">>
      [] e = <<"base64">> /\ c = <<"zstd">> /\ zstd
           -> <<"parse_base64", "decode_zstd", "convert_to_tile">>
      [] OTHER -> <<>>

IsPrefix(p, q) == Len(p) <= Len(q) /\ p = SubSeq(q, 1, Len(p))

\* C2: parse_data_line follows the dispatch table.  A pair the table rejects
\* (no encoding, an unknown encoding, a compression of CSV, an unknown
\* compression, zstd without the capability) is TiledError::Other with no
\* event pulled and no decoder run; any other pair runs the stages of its
\* row in the row's order, base64 first and the assembly last, and a
\* success has run them all.
C2_DispatchTable ==
    (fn = "parse_data" /\ pc # "entry") =>
        LET stages == TableStages(TagAttr("encoding"), TagAttr("compression"))
        IN  IF stages = <<>>
            THEN pc = "done" /\ result = ErrGrid("Other") /\ nEvents = 0 /\ calls = <<>>
            ELSE /\ calls # <<>>
                 /\ IsPrefix(calls, stages)
                 /\ (result.kind = "Ok" => calls = stages)
                 /\ (result.kind = "Err" => result.err # "Other")

\* parse_data has returned the grid of a base64 and gzip payload.
C2_Witness ==
    /\ fn = "parse_data" /\ pc = "done" /\ result.kind = "Ok" /\ result.val # <<>>
    /\ calls = <<"parse_base64", "decode_gzip", "convert_to_tile">>

\* C4: an EndDocument that parse_base64 or decode_csv pulls ends the parse
\* with PrematureEnd.
C4_PrematureEndInData ==
    (last.type = "EndDocument" /\ last.by \in {"parse_base64", "decode_csv"})
        => (pc = "done" /\ result = ErrGrid("PrematureEnd"))

\* The origins of the chunk child tags of the data tag.
ChildOrigins == {<<children[i].x, children[i].y>> : i \in 1..Len(children)}

\* The last chunk child tag with the origin o.
LastChild(o) ==
    children[CHOOSE i \in 1..Len(children) :
                 /\ <<children[i].x, children[i].y>> = o
                 /\ \A j \in (i + 1)..Len(children) : <<children[j].x, children[j].y>> # o]

\* C7: when parse_infinite_data succeeds, the grid has one entry per distinct
\* origin among the chunk child tags between the data start-tag and its
\* end-tag, each entry under its own origin, and the entry of an origin is
\* the last chunk tag with that origin.
C7_OneEntryPerOrigin ==
    (fn = "parse_infinite_data" /\ pc = "done" /\ result.kind = "Ok") =>
        /\ DOMAIN chunks = ChildOrigins
        /\ \A o \in DOMAIN chunks :
              /\ <<chunks[o].x, chunks[o].y>> = o
              /\ chunks[o].width = LastChild(o).width

\* C8: when the tag whose content decode_csv decodes (the data tag, or a
\* chunk tag) closes before any character data, decode_csv returns with that
\* end-tag, and the grid it returns has no row.
C8_EmptyContent ==
    (last.by = "decode_csv" /\ last.type = "EndElement" /\ Len(open) < ctx.depth) =>
        /\ pc # "decode_csv"
        /\ (ctx.by = "parse_data" => pc = "done" /\ result = OkGrid(<<>>))
        /\ (ctx.by = "chunk" => pc = "parse_tag" /\ chunks[<<cur.x, cur.y>>].tiles = <<>>)

\* C10: once decode_csv has read the character data, every iteration of the
\* row-building loop takes one tile at least from the iterator.
C10_RowLoopConsumes ==
    [][(pc = "csv_rows" /\ pc' = "csv_rows") => Len(tiles_it') < Len(tiles_it)]_vars
====
